---- MODULE Spec2Model ----
(***************************************************************************)
(* Model of gcp/bigquery/_job.py: class Job, a client-side handle caching  *)
(* the completion and error state of one remote BigQuery job.              *)
(*                                                                         *)
(* Python values are modelled as records tagged with their Python type, so *)
(* that None, booleans, JobError tuples and lists stay distinct values.    *)
(* Python dicts (the parsed JSON of a jobs_get response) are functions     *)
(* whose DOMAIN is the set of keys present; "k in d" is k \in DOMAIN d.    *)
(***************************************************************************)
EXTENDS Integers, Sequences, FiniteSets, TLC

\* ------------------------------------------------------------------ bounds
MaxErrors == 2      \* longest status.errors sequence the provider returns
MaxFetches == 3     \* cap on the number of api.jobs_get calls in a run
MaxSleeps == 2      \* cap on the number of _sleep calls inside one wait
MaxTimeout == 2     \* largest timeout argument passed to wait
MaxPoll == 2        \* largest poll argument passed to wait

\* def wait(self, timeout=None, poll=5)
DefaultPoll == 5

\* ----------------------------------------------------------- Python values
None == [type |-> "NoneType"]
PyBool(b) == [type |-> "bool", val |-> b]
PyTrue == PyBool(TRUE)
PyFalse == PyBool(FALSE)
PyStr(s) == [type |-> "str", val |-> s]
PyInt(n) == [type |-> "int", val |-> n]
PyList(s) == [type |-> "list", items |-> s]
EmptyDict == [k \in {} |-> None]

\* JobError = collections.namedtuple('JobError', ['location', 'message', 'reason'])
JobError(location, message, reason) ==
  [type |-> "JobError", location |-> location, message |-> message, reason |-> reason]

\* bool(v) as Python computes it for the values that occur here
Truthy(v) ==
  CASE v.type = "NoneType" -> FALSE
    [] v.type = "bool" -> v.val
    [] v.type = "int" -> v.val # 0
    [] v.type = "str" -> v.val # ""
    [] v.type = "list" -> Len(v.items) > 0
    [] v.type = "JobError" -> TRUE      \* a tuple of three fields is never empty

\* Python's "a and b": a when a is falsy, else b
PyAnd(a, b) == IF Truthy(a) THEN b ELSE a

\* dict.get(key, default)
Get(d, key, default) == IF key \in DOMAIN d THEN d[key] ELSE default

\* ------------------------------------------------ the StatusProvider's answers
\* error payloads: dicts with any of the keys location, message, reason
ErrorPayloads ==
  { EmptyDict,
    [message |-> PyStr("boom")],
    [reason |-> PyStr("a")],
    [location |-> PyStr("l"), message |-> PyStr("m"), reason |-> PyStr("b")] }

\* the elements of status.errors
ErrorItems == { [reason |-> PyStr("a")], [reason |-> PyStr("b")] }

SeqsUpTo(S, n) == UNION { [1..k -> S] : k \in 0..n }

\* status objects of a finished job: state DONE, with or without errorResult,
\* with or without errors (of any length up to MaxErrors)
DoneStatuses ==
  { ("state" :> "DONE") @@ er @@ es :
      er \in {EmptyDict} \cup { "errorResult" :> e : e \in ErrorPayloads },
      es \in {EmptyDict} \cup { "errors" :> l : l \in SeqsUpTo(ErrorItems, MaxErrors) } }

\* status objects of a job that is not finished: state absent or not DONE,
\* possibly carrying errorResult and errors all the same
OtherStatuses ==
  { st @@ er @@ es :
      st \in {EmptyDict, "state" :> "RUNNING"},
      er \in {EmptyDict, "errorResult" :> [message |-> PyStr("boom")]},
      es \in {EmptyDict, "errors" :> <<>>, "errors" :> <<[reason |-> PyStr("a")]>>} }

Statuses == DoneStatuses \cup OtherStatuses

\* a response is a dict with or without the key status
Responses == {EmptyDict} \cup { "status" :> s : s \in Statuses }

\* api.jobs_get raising instead of returning
TransportError == [type |-> "raise", exc |-> "TransportError"]

\* what one call of api.jobs_get can do
Outcomes == Responses \cup {TransportError}

\* responses of a job that is not finished, and of a finished one
NotDoneResponses == {EmptyDict} \cup { "status" :> s : s \in OtherStatuses }
DoneResponses == { "status" :> s : s \in DoneStatuses }

\* a payload supports error.get(...) when it is a dict; a JSON null (None) does not
HasGet(payload) == payload # None

\* DONE responses in which errorResult, or an element of errors, is null
MalformedResponses ==
  { "status" :> (("state" :> "DONE") @@ er @@ es) :
      er \in {EmptyDict, "errorResult" :> None, "errorResult" :> [message |-> PyStr("boom")]},
      es \in {EmptyDict,
              "errors" :> <<None>>,
              "errors" :> <<[reason |-> PyStr("a")], None>>,
              "errors" :> <<[reason |-> PyStr("a")]>>} }
    \ Responses

\* the exceptions that leave a call
AttributeError == [type |-> "raise", exc |-> "AttributeError"]   \* None.get(...)
ValueError == [type |-> "raise", exc |-> "ValueError"]           \* _sleep(negative)
Exceptions == {TransportError, AttributeError, ValueError}

\* ------------------------------------------------------------------ state
VARIABLES
  is_complete,   \* self._is_complete
  fatal_error,   \* self._fatal_error
  errors,        \* self._errors
  fetches,       \* number of api.jobs_get calls made so far
  pc,            \* "idle", or the position inside a running wait
  timeout,       \* wait's local variable timeout
  poll,          \* wait's local variable poll
  sleeps,        \* number of _sleep calls made by the current/last wait
  called,        \* the operation called last
  response,      \* what api.jobs_get did in the last refresh
  ret,           \* what the last call returned (or the exception it raised)
  job_id,        \* self._job_id
  provider,      \* how the api behind self._api answers (fixed for a run)
  timeout0,      \* the timeout argument the current/last wait was called with
  polls,         \* number of api.jobs_get calls made by the current/last wait
  threads,       \* concurrent use: each thread's position and local variables
  seen,          \* concurrent use: the anomalies observed so far
  alias          \* concurrent use: the threads whose returned value is the very
                 \* list object that self._errors refers to

vars == <<is_complete, fatal_error, errors, fetches, pc, timeout, poll, sleeps,
          called, response, ret, job_id, provider, timeout0, polls, threads, seen, alias>>

handle == <<is_complete, fatal_error, errors>>
waitvars == <<timeout, poll, sleeps>>
fixed == <<job_id, provider>>
conc == <<threads, seen, alias>>

JobIds == {"job_1"}
Threads == {1, 2}

NoFetch == [type |-> "nofetch"]    \* the refresh did not call api.jobs_get
Pending == [type |-> "pending"]    \* the call has not returned yet
NoCall == "none"

Self == [is_complete |-> is_complete, fatal_error |-> fatal_error, errors |-> errors]

\* a thread that is not inside any call
ThreadIdle == [pc |-> "idle", call |-> NoCall, resp |-> NoFetch, rest |-> <<>>, ret |-> None]

\* Job.__init__, for a given kind of provider
InitWith(kind) ==
  /\ job_id \in JobIds
  /\ provider = kind
  /\ timeout0 = None
  /\ polls = 0
  /\ threads = [t \in Threads |-> ThreadIdle]
  /\ seen = {}
  /\ alias = {}
  /\ is_complete = FALSE
  /\ errors = None
  /\ fatal_error = None
  /\ fetches = 0
  /\ pc = "idle"
  /\ timeout = None
  /\ poll = None
  /\ sleeps = 0
  /\ called = NoCall
  /\ response = NoFetch
  /\ ret = None

\* the provider answers with any well-formed response, or raises
Init == InitWith("any")

\* ------------------------------------------------------- Job._refresh_state
\* variant: message and reason passed to JobError in the wrong order
ParseError_Swapped(error) ==
  JobError(Get(error, "location", None),
           Get(error, "reason", None),
           Get(error, "message", None))

\* location/message/reason = error.get(..., None); JobError(location, message, reason)
ParseError(error) ==
  JobError(Get(error, "location", None),
           Get(error, "message", None),
           Get(error, "reason", None))

\* variant: insert(0, ...) instead of append, which reverses the order
RECURSIVE AppendErrors_Prepend(_, _)
AppendErrors_Prepend(acc, rest) ==
  IF rest = <<>> THEN acc
  ELSE AppendErrors_Prepend(<<ParseError(Head(rest))>> \o acc, Tail(rest))

\* for error in status['errors']: ... self._errors.append(JobError(...))
RECURSIVE AppendErrors(_, _)
AppendErrors(acc, rest) ==
  IF rest = <<>> THEN acc
  ELSE IF ~HasGet(Head(rest)) THEN acc      \* error.get raises, the loop is left
  ELSE AppendErrors(Append(acc, ParseError(Head(rest))), Tail(rest))

\* variant: any reported state counts as finished
IsDone_AnyState(status) == "state" \in DOMAIN status

\* 'state' in status and status['state'] == 'DONE'
IsDone(status) == "state" \in DOMAIN status /\ status["state"] = "DONE"

\* variant: the fatal error is built whether or not errorResult is present
FatalErrorOf_Always(self, status) ==
  ParseError(Get(status, "errorResult", EmptyDict))

\* if 'errorResult' in status: self._fatal_error = JobError(...)
FatalErrorOf(self, status) ==
  IF "errorResult" \in DOMAIN status
    THEN ParseError(status["errorResult"])
    ELSE self.fatal_error

\* variant: an empty errors list is treated like an absent one
ErrorsOf_NoneWhenEmpty(self, status) ==
  IF "errors" \in DOMAIN status /\ status["errors"] # <<>>
    THEN PyList(AppendErrors(<<>>, status["errors"]))
    ELSE self.errors

\* if 'errors' in status: self._errors = []; for ...: self._errors.append(...)
ErrorsOf(self, status) ==
  IF "errors" \in DOMAIN status
    THEN PyList(AppendErrors(<<>>, status["errors"]))
    ELSE self.errors

\* the processing of a response that api.jobs_get returned: the handle
\* afterwards and the exception that ended the processing (None when it ran
\* to the end). The assignments made before the exception stay.
ProcessResponse(self, resp) ==
  IF "status" \in DOMAIN resp
    THEN LET status == resp["status"] IN
         IF IsDone(status)
           THEN LET s1 == [self EXCEPT !.is_complete = TRUE] IN
                IF "errorResult" \in DOMAIN status /\ ~HasGet(status["errorResult"])
                  THEN [self |-> s1, exc |-> AttributeError]
                  ELSE [self |-> [is_complete |-> TRUE,
                                  fatal_error |-> FatalErrorOf(self, status),
                                  errors |-> ErrorsOf(self, status)],
                        exc |-> IF /\ "errors" \in DOMAIN status
                                   /\ \E i \in 1..Len(status["errors"]) :
                                        ~HasGet(status["errors"][i])
                                  THEN AttributeError
                                  ELSE None]
           ELSE [self |-> self, exc |-> None]
    ELSE [self |-> self, exc |-> None]

\* variant: no early return, every refresh fetches
TrustCache_Never(self) == FALSE

\* variant: the early return tests the fatal error instead of completion
TrustCache_OnFatal(self) == self.fatal_error # None

\* if self._is_complete: return
TrustCache(self) == self.is_complete

\* variant: a failure of api.jobs_get is caught and the refresh returns normally
RefreshState_Swallow(self, outcome) ==
  IF TrustCache(self)
    THEN [self |-> self, fetched |-> FALSE, raised |-> FALSE, exc |-> None]
    ELSE IF outcome = TransportError
      THEN [self |-> self, fetched |-> TRUE, raised |-> FALSE, exc |-> None]
      ELSE LET p == ProcessResponse(self, outcome) IN
           [self |-> p.self, fetched |-> TRUE, raised |-> p.exc # None, exc |-> p.exc]

\* _refresh_state on the handle self when api.jobs_get, if called, does outcome.
\* Result: the handle afterwards, whether jobs_get was called, whether the
\* call left by an exception, and which.
RefreshState(self, outcome) ==
  IF TrustCache(self)
    THEN [self |-> self, fetched |-> FALSE, raised |-> FALSE, exc |-> None]
    ELSE IF outcome = TransportError
      THEN [self |-> self, fetched |-> TRUE, raised |-> TRUE, exc |-> TransportError]
      ELSE LET p == ProcessResponse(self, outcome) IN
           [self |-> p.self, fetched |-> TRUE, raised |-> p.exc # None, exc |-> p.exc]

\* the number of the fetch by which an eventually finishing job is finished
\* (within the caps on fetches and sleeps)
DoneBy == IF MaxSleeps + 1 < MaxFetches THEN MaxSleeps + 1 ELSE MaxFetches

\* what api.jobs_get can do when called, by the kind of provider
ProviderOutcomes ==
  CASE provider = "any" -> Outcomes
    [] provider = "malformed" -> Outcomes \cup MalformedResponses
    [] provider = "never_done" -> NotDoneResponses
    [] provider = "few" ->
         { [status |-> [state |-> "RUNNING"]],
           [status |-> [state |-> "DONE"]],
           [status |-> [state |-> "DONE",
                        errorResult |-> [message |-> PyStr("boom")],
                        errors |-> <<[reason |-> PyStr("a")], [reason |-> PyStr("b")]>>]] }
    [] provider = "eventually_done" ->
         IF fetches + 1 >= DoneBy THEN DoneResponses ELSE Responses

\* what api.jobs_get can do in a refresh of self: it is called only when the
\* refresh does not return early, and then it answers as the provider does
Offered(self) == IF TrustCache(self) THEN {NoFetch} ELSE ProviderOutcomes

\* ---------------------------------------------------------- the accessors
\* return self._is_complete
ReadIsComplete(self) == PyBool(self.is_complete)
\* return self._is_complete and self._fatal_error
ReadFailed(self) == PyAnd(PyBool(self.is_complete), self.fatal_error)
\* return self._fatal_error
ReadFatalError(self) == self.fatal_error
\* return self._errors
ReadErrors(self) == self.errors

\* one property access: self._refresh_state() and then the return expression
Access(name, value, outcome) ==
  LET r == RefreshState(Self, outcome) IN
  /\ pc = "idle"
  /\ r.fetched => fetches < MaxFetches
  /\ is_complete' = r.self.is_complete
  /\ fatal_error' = r.self.fatal_error
  /\ errors' = r.self.errors
  /\ fetches' = IF r.fetched THEN fetches + 1 ELSE fetches
  /\ response' = IF r.fetched THEN outcome ELSE NoFetch
  /\ called' = name
  /\ ret' = IF r.raised THEN r.exc ELSE value
  /\ timeout' = None /\ poll' = None /\ sleeps' = 0
  /\ timeout0' = None /\ polls' = 0
  /\ UNCHANGED <<pc, fixed, conc>>

\* return self._job_id
ReadId(id) == PyStr(id)
\* return 'Job %s' % str(self._job_id)
ReadRepr(id) == PyStr("Job " \o id)

\* a call that only reads self._job_id
Describe(name, value) ==
  /\ pc = "idle"
  /\ called' = name
  /\ ret' = value
  /\ response' = NoFetch
  /\ timeout' = None /\ poll' = None /\ sleeps' = 0
  /\ timeout0' = None /\ polls' = 0
  /\ UNCHANGED <<handle, fetches, pc, fixed, conc>>

Id == Describe("id", ReadId(job_id))
Repr == Describe("repr", ReadRepr(job_id))

\* variant: the value is read before the refresh
IsComplete_Stale ==
  \E o \in Offered(Self) : Access("iscomplete", ReadIsComplete(Self), o)

IsComplete ==
  \E o \in Offered(Self) : Access("iscomplete", ReadIsComplete(RefreshState(Self, o).self), o)
Failed ==
  \E o \in Offered(Self) : Access("failed", ReadFailed(RefreshState(Self, o).self), o)
FatalError ==
  \E o \in Offered(Self) : Access("fatal_error", ReadFatalError(RefreshState(Self, o).self), o)
Errors ==
  \E o \in Offered(Self) : Access("errors", ReadErrors(RefreshState(Self, o).self), o)

\* ------------------------------------------------------------------ Job.wait
TimeoutArgs == {None} \cup { PyInt(n) : n \in -1..MaxTimeout }
PollArgs == { PyInt(n) : n \in -1..MaxPoll }

\* the argument pairs wait is called with: all small ones, the default poll
\* without timeout, and a timeout of two default polls
WaitArgs ==
  (TimeoutArgs \X PollArgs)
    \cup { <<None, PyInt(DefaultPoll)>>, <<PyInt(2 * DefaultPoll), PyInt(DefaultPoll)>> }

\* the call wait(timeout=t, poll=p): binds the arguments, enters the loop
WaitCallWith(t, p) ==
  /\ pc = "idle"
  /\ pc' = "wait_test"
  /\ timeout' = t
  /\ timeout0' = t
  /\ poll' = p
  /\ sleeps' = 0
  /\ polls' = 0
  /\ called' = "wait"
  /\ response' = NoFetch
  /\ ret' = Pending
  /\ UNCHANGED <<handle, fetches, fixed, conc>>

WaitCall == \E a \in WaitArgs : WaitCallWith(a[1], a[2])

\* variant: the loop tests failed instead of iscomplete
LoopExits_OnFailed(self) == Truthy(ReadFailed(self))

\* while not self.iscomplete
LoopExits(self) == Truthy(ReadIsComplete(self))

\* variant: the test for None is missing (None <= 0 holds in Python 2)
TimedOut_NoNoneTest(t) == IF t = None THEN TRUE ELSE t.val <= 0

\* variant: the budget is compared with < instead of <=
TimedOut_Strict(t) == t # None /\ t.val < 0

\* if timeout is not None: if timeout <= 0: return False
TimedOut(t) == t # None /\ t.val <= 0

\* variant: the budget is raised instead of lowered
Decrement_Add(t, p) == IF t # None THEN PyInt(t.val + p.val) ELSE None

\* variant: the budget is decremented by one second per pass
Decrement_ByOne(t, p) == IF t # None THEN PyInt(t.val - 1) ELSE None

\* if timeout is not None: ... timeout -= poll
Decrement(t, p) == IF t # None THEN PyInt(t.val - p.val) ELSE None

\* variant: the timeout is tested before the completion
WaitDecision_TimeoutFirst(self, raised, t) ==
  IF raised THEN "raise"
  ELSE IF TimedOut(t) THEN "false"
  ELSE IF LoopExits(self) THEN "true"
  ELSE "sleep"

\* one pass of the loop from its test up to, not including, _sleep(poll):
\* the refresh raised, or the loop is left with True or False, or it sleeps
WaitDecision(self, raised, t) ==
  IF raised THEN "raise"
  ELSE IF LoopExits(self) THEN "true"
  ELSE IF TimedOut(t) THEN "false"
  ELSE "sleep"

\* the loop test and body before the sleep, when api.jobs_get (if called) does
\* o; cap bounds the number of fetches
WaitTestOn(o, cap) ==
  LET r == RefreshState(Self, o)
      d == WaitDecision(r.self, r.raised, timeout) IN
  /\ pc = "wait_test"
  /\ r.fetched => fetches < cap
  /\ is_complete' = r.self.is_complete
  /\ fatal_error' = r.self.fatal_error
  /\ errors' = r.self.errors
  /\ fetches' = IF r.fetched THEN fetches + 1 ELSE fetches
  /\ polls' = IF r.fetched THEN polls + 1 ELSE polls
  /\ response' = IF r.fetched THEN o ELSE NoFetch
  /\ UNCHANGED <<called, poll, sleeps, timeout0, fixed, conc>>
  /\ pc' = IF d = "sleep" THEN "wait_sleep" ELSE "idle"
  /\ ret' = CASE d = "raise" -> r.exc
              [] d = "true" -> PyTrue
              [] d = "false" -> PyFalse
              [] d = "sleep" -> Pending
  /\ timeout' = IF d = "sleep" THEN Decrement(timeout, poll) ELSE timeout

WaitTest == \E o \in Offered(Self) : WaitTestOn(o, MaxFetches)

\* _sleep(poll), then back to the loop test; time.sleep raises ValueError for
\* a negative length; cap bounds the number of sleeps
WaitSleepUpTo(cap) ==
  /\ pc = "wait_sleep"
  /\ IF poll.val < 0
       THEN /\ pc' = "idle"
            /\ ret' = ValueError
            /\ UNCHANGED sleeps
       ELSE /\ sleeps < cap
            /\ sleeps' = sleeps + 1
            /\ pc' = "wait_test"
            /\ UNCHANGED ret
  /\ UNCHANGED <<handle, fetches, timeout, poll, called, response, timeout0, polls,
                 fixed, conc>>

WaitSleep == WaitSleepUpTo(MaxSleeps)

\* ------------------------------------------------- two threads on one handle
\* Each thread runs property accesses; the statements of _refresh_state and
\* the return expression are the steps that interleave.

\* variant: the completion flag is assigned after the fields
TransitionOrder_FlagLast == <<"set_fatal", "init_errors", "append", "set_complete">>

\* the statements of the DONE branch in program order: line 105, lines
\* 106-111, lines 112-113, lines 114-118
TransitionOrder == <<"set_complete", "set_fatal", "init_errors", "append">>

\* the statement after the i-th of the DONE branch; the return expression last
StatementAfter(i) ==
  IF i < Len(TransitionOrder) THEN TransitionOrder[i + 1] ELSE "read"

\* the position of the statement named p in the DONE branch
IndexOf(p) == CHOOSE i \in 1..Len(TransitionOrder) : TransitionOrder[i] = p

InCalls == {"failed", "errors"}

StatusOf(resp) == IF "status" \in DOMAIN resp THEN resp["status"] ELSE EmptyDict

\* thread t moves to position p
Goto(t, p) == [threads EXCEPT ![t].pc = p]

\* thread t calls the property name
CCall(t, name) ==
  /\ threads[t].pc = "idle"
  /\ threads' = [threads EXCEPT ![t] =
                   [pc |-> "check", call |-> name, resp |-> NoFetch, rest |-> <<>>,
                    ret |-> Pending]]
  /\ alias' = alias \ {t}
  /\ UNCHANGED <<handle, fetches, seen>>

\* if self._is_complete: return
CCheck(t) ==
  /\ threads[t].pc = "check"
  /\ threads' = Goto(t, IF TrustCache(Self) THEN "read" ELSE "fetch")
  /\ UNCHANGED <<handle, fetches, seen, alias>>

\* response = self._api.jobs_get(self._job_id), and the tests of lines 102-104
CFetch(t, o) ==
  /\ threads[t].pc = "fetch"
  /\ fetches < MaxFetches
  /\ fetches' = fetches + 1
  /\ threads' = [threads EXCEPT
                   ![t].resp = o,
                   ![t].pc = IF "status" \in DOMAIN o /\ IsDone(o["status"])
                               THEN TransitionOrder[1] ELSE "read"]
  /\ seen' = IF is_complete THEN seen \cup {"late_fetch"} ELSE seen
  /\ UNCHANGED <<handle, alias>>

\* self._is_complete = True
CSetComplete(t) ==
  /\ threads[t].pc = "set_complete"
  /\ is_complete' = TRUE
  /\ threads' = Goto(t, StatementAfter(IndexOf("set_complete")))
  /\ UNCHANGED <<fatal_error, errors, fetches, seen, alias>>

\* if 'errorResult' in status: ... self._fatal_error = JobError(...)
CSetFatal(t) ==
  /\ threads[t].pc = "set_fatal"
  /\ fatal_error' = FatalErrorOf(Self, StatusOf(threads[t].resp))
  /\ threads' = Goto(t, StatementAfter(IndexOf("set_fatal")))
  /\ UNCHANGED <<is_complete, errors, fetches, seen, alias>>

\* if 'errors' in status: self._errors = []
CInitErrors(t) ==
  LET status == StatusOf(threads[t].resp) IN
  /\ threads[t].pc = "init_errors"
  /\ IF "errors" \in DOMAIN status
       THEN /\ errors' = PyList(<<>>)
            /\ alias' = {}
            /\ threads' = [threads EXCEPT
                             ![t].rest = status["errors"],
                             ![t].pc = StatementAfter(IndexOf("init_errors"))]
       ELSE /\ UNCHANGED <<errors, alias>>
            /\ threads' = Goto(t, StatementAfter(IndexOf("append")))
  /\ UNCHANGED <<is_complete, fatal_error, fetches, seen>>

\* for error in status['errors']: ... self._errors.append(JobError(...))
\* (one pass of the loop, or its end). append extends the list object in
\* place, so a thread that was handed that object by the errors property
\* holds the longer list too.
CAppend(t) ==
  /\ threads[t].pc = "append"
  /\ IF threads[t].rest = <<>>
       THEN /\ threads' = Goto(t, StatementAfter(IndexOf("append")))
            /\ UNCHANGED errors
       ELSE /\ errors' = PyList(Append(errors.items, ParseError(Head(threads[t].rest))))
            /\ threads' = [u \in Threads |->
                 IF u = t THEN [threads[u] EXCEPT !.rest = Tail(threads[t].rest)]
                 ELSE IF u \in alias THEN [threads[u] EXCEPT !.ret = errors']
                 ELSE threads[u]]
  /\ UNCHANGED <<is_complete, fatal_error, fetches, seen, alias>>

\* another thread is inside the DONE branch and has yet to store a fatal error
FatalPending(t) ==
  \E u \in Threads \ {t} :
    /\ threads[u].pc = "set_fatal"
    /\ "errorResult" \in DOMAIN StatusOf(threads[u].resp)

\* another thread is inside the DONE branch and has yet to append an error
ErrorsPending(t) ==
  \E u \in Threads \ {t} :
    /\ threads[u].pc = "append"
    /\ threads[u].rest # <<>>

\* the return expression of the property the thread called
CRead(t) ==
  LET value == IF threads[t].call = "failed" THEN ReadFailed(Self) ELSE ReadErrors(Self) IN
  /\ threads[t].pc = "read"
  /\ threads' = [threads EXCEPT ![t].pc = "idle", ![t].ret = value,
                                ![t].resp = NoFetch, ![t].rest = <<>>]
  /\ seen' = seen
       \cup (IF /\ threads[t].call = "failed" /\ is_complete /\ ~Truthy(value)
                /\ FatalPending(t)
               THEN {"stale_failed"} ELSE {})
       \cup (IF /\ threads[t].call = "errors" /\ is_complete /\ value # None
                /\ ErrorsPending(t)
               THEN {"short_errors"} ELSE {})
  /\ alias' = IF threads[t].call = "errors" /\ value # None
                 THEN alias \cup {t} ELSE alias \ {t}
  /\ UNCHANGED <<handle, fetches>>

single == <<pc, timeout, poll, sleeps, called, response, ret, fixed, timeout0, polls>>

ConcCall == \E t \in Threads, name \in InCalls : CCall(t, name) /\ UNCHANGED single
ConcCheck == \E t \in Threads : CCheck(t) /\ UNCHANGED single
ConcFetch == \E t \in Threads, o \in ProviderOutcomes : CFetch(t, o) /\ UNCHANGED single
ConcSetComplete == \E t \in Threads : CSetComplete(t) /\ UNCHANGED single
ConcSetFatal == \E t \in Threads : CSetFatal(t) /\ UNCHANGED single
ConcInitErrors == \E t \in Threads : CInitErrors(t) /\ UNCHANGED single
ConcAppend == \E t \in Threads : CAppend(t) /\ UNCHANGED single
ConcRead == \E t \in Threads : CRead(t) /\ UNCHANGED single

ConcNext ==
  \/ ConcCall \/ ConcCheck \/ ConcFetch \/ ConcSetComplete
  \/ ConcSetFatal \/ ConcInitErrors \/ ConcAppend \/ ConcRead

\* two threads use one handle without serialization
ConcSpec == InitWith("few") /\ [][ConcNext]_vars

Next ==
  \/ IsComplete \/ Failed \/ FatalError \/ Errors
  \/ Id \/ Repr
  \/ WaitCall \/ WaitTest \/ WaitSleep

Spec == Init /\ [][Next]_vars

\* a provider whose DONE responses may carry null where an error dict belongs
MalformedSpec == InitWith("malformed") /\ [][Next]_vars

\* enough fetches and sleeps for every wait with poll > 0 to use up its timeout
NeverCap == MaxTimeout + 2

\* one wait on a fresh handle
FirstWaitCall == called = NoCall /\ WaitCall
LongWaitTest == \E o \in Offered(Self) : WaitTestOn(o, NeverCap)
LongWaitSleep == WaitSleepUpTo(NeverCap)

NeverNext == FirstWaitCall \/ LongWaitTest \/ LongWaitSleep

\* a provider that never raises and never answers DONE; one call of wait,
\* whose thread keeps running
NeverSpec ==
  /\ InitWith("never_done")
  /\ [][NeverNext]_vars
  /\ WF_vars(LongWaitTest)
  /\ WF_vars(LongWaitSleep)

\* a provider that never raises and answers DONE sooner or later; the thread
\* that is inside wait keeps running
EventualSpec ==
  /\ InitWith("eventually_done")
  /\ [][Next]_vars
  /\ WF_vars(WaitTest)
  /\ WF_vars(WaitSleep)

TypeOK ==
  /\ is_complete \in BOOLEAN
  /\ fetches \in 0..MaxFetches
  /\ sleeps \in 0..MaxSleeps
  /\ pc \in {"idle", "wait_test", "wait_sleep"}

\* =================================================================== claims
Accessors == {"iscomplete", "failed", "fatal_error", "errors"}

\* the last refresh fetched a response (jobs_get was called and returned)
Fetched == response \in Responses
\* the status object of the fetched response, {} when it has none
FetchedStatus == IF "status" \in DOMAIN response THEN response["status"] ELSE EmptyDict
\* the fetched response reports the terminal state
FetchedDone ==
  /\ Fetched
  /\ "state" \in DOMAIN FetchedStatus
  /\ FetchedStatus["state"] = "DONE"
\* the JobError a payload dict should parse to
Expected(e) ==
  [type |-> "JobError",
   location |-> IF "location" \in DOMAIN e THEN e["location"] ELSE None,
   message |-> IF "message" \in DOMAIN e THEN e["message"] ELSE None,
   reason |-> IF "reason" \in DOMAIN e THEN e["reason"] ELSE None]

\* C1: once the handle is complete, no step of any accessor or of wait calls
\* api.jobs_get again: the number of fetches never changes from a complete state.
C1_CacheTrust == [][is_complete => fetches' = fetches]_vars

\* an accessor ran on a complete handle, with fetches still allowed, and did not fetch
C1_Witness ==
  /\ is_complete
  /\ called \in Accessors
  /\ response = NoFetch
  /\ fetches < MaxFetches

\* C2: completion is monotonic and the terminal state is frozen: from a complete
\* state every step leaves _is_complete True and _fatal_error and _errors as they
\* are, and the accessors return exactly those values.
C2_Frozen ==
  [][is_complete =>
       /\ is_complete'
       /\ fatal_error' = fatal_error
       /\ errors' = errors
       /\ (called' = "iscomplete" => ret' = PyTrue)
       /\ (called' = "fatal_error" => ret' = fatal_error)
       /\ (called' = "errors" => ret' = errors)]_vars

\* the errors accessor ran on an already complete handle and returned the stored list
C2_Witness ==
  /\ is_complete
  /\ called = "errors"
  /\ response = NoFetch
  /\ errors # None
  /\ fatal_error = None
  /\ ret = errors

\* C3: while the handle is incomplete nothing is set: a set _fatal_error or
\* _errors implies _is_complete, and after a fetched response that is not DONE
\* the handle is incomplete with both fields None, iscomplete and failed return
\* False, fatal_error and errors return None.
C3_NothingSetWhileIncomplete ==
  /\ (fatal_error # None \/ errors # None) => is_complete
  /\ (Fetched /\ ~FetchedDone) =>
       /\ ~is_complete
       /\ fatal_error = None
       /\ errors = None
       /\ (called = "iscomplete" => ret = PyFalse)
       /\ (called = "failed" => ret = PyFalse)
       /\ (called = "fatal_error" => ret = None)
       /\ (called = "errors" => ret = None)

\* failed ran and fetched a RUNNING response that carries errorResult and errors
C3_Witness ==
  /\ Fetched
  /\ "state" \in DOMAIN FetchedStatus
  /\ FetchedStatus["state"] = "RUNNING"
  /\ "errorResult" \in DOMAIN FetchedStatus
  /\ "errors" \in DOMAIN FetchedStatus
  /\ called = "failed"
  /\ ret = PyFalse
  /\ fetches > 1

\* C4: after fetching a DONE response with errorResult, the handle is complete,
\* _fatal_error is the JobError of the errorResult fields (None where a field
\* is absent), failed returns a true value and fatal_error returns that JobError.
C4_FatalErrorReported ==
  (FetchedDone /\ "errorResult" \in DOMAIN FetchedStatus) =>
     /\ is_complete
     /\ fatal_error = Expected(FetchedStatus["errorResult"])
     /\ (called = "failed" => Truthy(ret))
     /\ (called = "fatal_error" => ret = Expected(FetchedStatus["errorResult"]))

\* failed ran on errorResult = {message: 'boom'}
C4_Witness ==
  /\ FetchedDone
  /\ "errorResult" \in DOMAIN FetchedStatus
  /\ FetchedStatus["errorResult"] = [message |-> PyStr("boom")]
  /\ called = "failed"
  /\ Truthy(ret)
  /\ fatal_error.message = PyStr("boom")
  /\ fatal_error.location = None
  /\ fatal_error.reason = None

\* C5: after fetching a DONE response with a non-empty errors and no errorResult,
\* failed returns a false value, _fatal_error is None and _errors is the list of
\* the JobErrors of the payload elements, same length, same order.
C5_PartialErrors ==
  (/\ FetchedDone
   /\ "errorResult" \notin DOMAIN FetchedStatus
   /\ "errors" \in DOMAIN FetchedStatus
   /\ FetchedStatus["errors"] # <<>>) =>
     /\ is_complete
     /\ fatal_error = None
     /\ (called = "failed" => ~Truthy(ret))
     /\ (called = "fatal_error" => ret = None)
     /\ errors.type = "list"
     /\ Len(errors.items) = Len(FetchedStatus["errors"])
     /\ \A i \in 1..Len(errors.items) :
          errors.items[i] = Expected(FetchedStatus["errors"][i])
     /\ (called = "errors" => ret = errors)

\* errors ran on errors = [{reason: 'a'}, {reason: 'b'}] without errorResult
C5_Witness ==
  /\ FetchedDone
  /\ "errorResult" \notin DOMAIN FetchedStatus
  /\ "errors" \in DOMAIN FetchedStatus
  /\ FetchedStatus["errors"] = <<[reason |-> PyStr("a")], [reason |-> PyStr("b")]>>
  /\ called = "errors"
  /\ ret = PyList(<<JobError(None, None, PyStr("a")), JobError(None, None, PyStr("b"))>>)

\* C6 as stated: after a DONE response whose errors is absent or empty, _errors
\* is None.
C6_Original ==
  (/\ FetchedDone
   /\ ("errors" \notin DOMAIN FetchedStatus \/ FetchedStatus["errors"] = <<>>)) =>
     errors = None

\* C6 as amended: after a DONE response without errors, _errors is None; after
\* a DONE response whose errors is present and empty, _errors is the empty list.
C6_AbsentNoneEmptyList ==
  /\ (FetchedDone /\ "errors" \notin DOMAIN FetchedStatus) =>
        /\ errors = None
        /\ (called = "errors" => ret = None)
  /\ (FetchedDone /\ "errors" \in DOMAIN FetchedStatus /\ FetchedStatus["errors"] = <<>>) =>
        /\ errors = PyList(<<>>)
        /\ errors # None
        /\ (called = "errors" => ret = PyList(<<>>))

\* errors ran on a DONE response with errors = []
C6_Witness ==
  /\ FetchedDone
  /\ "errors" \in DOMAIN FetchedStatus
  /\ FetchedStatus["errors"] = <<>>
  /\ called = "errors"
  /\ ret = PyList(<<>>)

\* C7: after fetching a DONE response with neither errorResult nor errors, the
\* handle is complete, iscomplete returns True, failed returns a false value,
\* fatal_error and errors are None.
C7_CleanCompletion ==
  (/\ FetchedDone
   /\ "errorResult" \notin DOMAIN FetchedStatus
   /\ "errors" \notin DOMAIN FetchedStatus) =>
     /\ is_complete
     /\ fatal_error = None
     /\ errors = None
     /\ (called = "iscomplete" => ret = PyTrue)
     /\ (called = "failed" => ~Truthy(ret))
     /\ (called = "fatal_error" => ret = None)
     /\ (called = "errors" => ret = None)

\* failed ran on the response {status: {state: DONE}}
C7_Witness ==
  /\ response = [status |-> [state |-> "DONE"]]
  /\ called = "failed"
  /\ ~Truthy(ret)
  /\ is_complete

\* C8 as stated: the errors accessor returns None while the job is running and
\* a list, never None, once the job is complete.
C8_ErrorsListWhenComplete ==
  (called = "errors" /\ ret # TransportError) =>
     IF is_complete THEN ret.type = "list" ELSE ret = None

\* C9 as stated: failed returns the boolean True when the handle is complete
\* with a fatal error and the boolean False otherwise, never None or the error.
C9_FailedIsBoolean ==
  (called = "failed" /\ ret # TransportError) =>
     ret = PyBool(is_complete /\ fatal_error # None)

\* C10: a step in which api.jobs_get raises leaves the call with that failure
\* (the call is over, nothing is returned), makes exactly that one fetch, does
\* not sleep (the sleep count of a wait stays, that of an accessor is zero) and
\* leaves the handle as it was; and an accessor called after a
\* failed call, the handle still being incomplete, fetches again.
C10_TransportFailure ==
  [][/\ (fetches' # fetches /\ response' = TransportError) =>
          /\ ret' = TransportError
          /\ pc' = "idle"
          /\ fetches' = fetches + 1
          /\ sleeps' = (IF called' = "wait" THEN sleeps ELSE 0)
          /\ is_complete' = is_complete
          /\ fatal_error' = fatal_error
          /\ errors' = errors
     /\ (ret = TransportError /\ ~is_complete /\ called' \in Accessors) =>
          /\ fetches' = fetches + 1
          /\ response' \in Outcomes]_vars

\* wait slept, fetched again, and the fetch raised out of wait
C10_Witness ==
  /\ ret = TransportError
  /\ response = TransportError
  /\ called = "wait"
  /\ sleeps > 0
  /\ pc = "idle"
  /\ ~is_complete

\* the least integer not below a / b, for b > 0
CeilDiv(a, b) == (a + b - 1) \div b

\* C11: a wait with poll > 0 that returns False has slept exactly
\* ceil(timeout/poll) times when its timeout argument is positive and not at
\* all when it is <= 0; the budget at the loop test is the argument less poll
\* per sleep made; and a sleep is only ever reached from a budget that the
\* test of that pass found positive.
C11_TimeoutProtocol ==
  /\ (called = "wait" /\ ret = PyFalse) =>
        /\ timeout0 # None
        /\ timeout.val <= 0
        /\ timeout.val = timeout0.val - sleeps * poll.val
        /\ poll.val > 0 =>
             sleeps = (IF timeout0.val > 0 THEN CeilDiv(timeout0.val, poll.val) ELSE 0)
  /\ (pc = "wait_sleep" /\ timeout0 # None) =>
        /\ timeout.val = timeout0.val - (sleeps + 1) * poll.val
        /\ timeout.val + poll.val > 0

\* wait(timeout=10, poll=5) returned False after two sleeps, budget 10, 5, 0
C11_Witness ==
  /\ called = "wait"
  /\ timeout0 = PyInt(2 * DefaultPoll)
  /\ poll = PyInt(DefaultPoll)
  /\ ret = PyFalse
  /\ sleeps = 2
  /\ timeout = PyInt(0)
  /\ pc = "idle"

\* C12: in a wait without timeout on a fresh handle (every fetch so far is a
\* fetch of this wait), as long as the call is pending no fetch has answered
\* DONE and each fetch but the last is followed by one sleep; the fetch that
\* answers DONE ends the call at once with True: after k fetches and k-1 sleeps.
C12_ReturnsAtFirstDone ==
  (called = "wait" /\ timeout0 = None /\ fetches = polls) =>
     /\ (ret = Pending /\ polls > 0) => (Fetched /\ ~FetchedDone /\ ~is_complete)
     /\ pc = "wait_sleep" => sleeps = polls - 1
     /\ (pc = "wait_test" /\ polls > 0) => sleeps = polls
     /\ FetchedDone => (pc = "idle" /\ ret = PyTrue)
     /\ ret = PyTrue => (FetchedDone /\ polls >= 1 /\ sleeps = polls - 1)

\* wait(timeout=None, poll=5) returned True at the third fetch, after two sleeps
C12_Witness ==
  /\ called = "wait"
  /\ timeout0 = None
  /\ poll = PyInt(DefaultPoll)
  /\ ret = PyTrue
  /\ fetches = 3
  /\ polls = 3
  /\ sleeps = 2
  /\ FetchedDone

\* C13: wait returns True only with the handle complete, failed or not, and
\* False only with the handle incomplete; a fetch that answers DONE makes it
\* return True whatever the remaining budget, because completion is tested
\* before the timeout.
C13_WaitMeansTerminal ==
  /\ (called = "wait" /\ ret = PyTrue) => is_complete
  /\ (called = "wait" /\ ret = PyFalse) => ~is_complete
  /\ (called = "wait" /\ FetchedDone) => (ret = PyTrue /\ pc = "idle")
  /\ (called = "wait" /\ pc = "idle" /\ is_complete /\ ret \notin Exceptions) =>
        ret = PyTrue

\* wait(timeout=0) fetched a DONE response with errorResult and returned True
C13_Witness ==
  /\ called = "wait"
  /\ timeout0 = PyInt(0)
  /\ FetchedDone
  /\ "errorResult" \in DOMAIN FetchedStatus
  /\ fatal_error # None
  /\ polls = 1
  /\ ret = PyTrue

\* C14 as stated: a wait without timeout, against a provider that never raises
\* and eventually answers DONE, never ends otherwise than by returning True.
C14_Original ==
  (called = "wait" /\ timeout0 = None /\ pc = "idle") => ret = PyTrue

\* C14 as amended: a wait without timeout never returns False; against a
\* provider that never raises and eventually answers DONE it ends only by
\* returning True or, when poll is negative, by the ValueError of its first
\* _sleep; and with poll >= 0 it eventually returns True.
C14_NoTimeoutWait ==
  /\ [](called = "wait" /\ timeout0 = None =>
          /\ ret # PyFalse
          /\ pc = "idle" =>
               \/ ret = PyTrue
               \/ (poll.val < 0 /\ ret = ValueError /\ polls = 1 /\ sleeps = 0))
  /\ (called = "wait" /\ timeout0 = None /\ pc # "idle" /\ poll.val >= 0)
        ~> (called = "wait" /\ timeout0 = None /\ pc = "idle" /\ ret = PyTrue)

\* a wait without timeout slept, fetched again and returned True
C14_Witness ==
  /\ provider = "eventually_done"
  /\ called = "wait"
  /\ timeout0 = None
  /\ poll.val >= 0
  /\ sleeps >= 1
  /\ polls = sleeps + 1
  /\ ret = PyTrue

\* what an accessor should return after fetching the response resp into an
\* incomplete handle
DoneIn(resp) ==
  /\ "status" \in DOMAIN resp
  /\ "state" \in DOMAIN resp["status"]
  /\ resp["status"]["state"] = "DONE"
FatalIn(resp) ==
  IF DoneIn(resp) /\ "errorResult" \in DOMAIN resp["status"]
    THEN Expected(resp["status"]["errorResult"])
    ELSE None
ErrorsIn(resp) ==
  IF DoneIn(resp) /\ "errors" \in DOMAIN resp["status"]
    THEN PyList([i \in 1..Len(resp["status"]["errors"]) |->
                   Expected(resp["status"]["errors"][i])])
    ELSE None

\* C15: a fresh handle has made no fetch and holds is_complete False and both
\* fields None; a call of iscomplete, failed, fatal_error or errors on an
\* incomplete handle makes exactly one fetch and, when the fetch answers,
\* returns the value that answer determines; id and repr make no fetch, leave
\* the handle as it is and return the job id and 'Job <id>'.
C15_RefreshThenRead ==
  /\ [](called = NoCall =>
          (fetches = 0 /\ ~is_complete /\ fatal_error = None /\ errors = None))
  /\ [][/\ (pc = "idle" /\ ~is_complete /\ called' \in Accessors) =>
             /\ fetches' = fetches + 1
             /\ response' \in Outcomes
             /\ response' \in Responses =>
                  /\ called' = "iscomplete" => ret' = PyBool(DoneIn(response'))
                  /\ called' = "failed" => Truthy(ret') = (FatalIn(response') # None)
                  /\ called' = "fatal_error" => ret' = FatalIn(response')
                  /\ called' = "errors" => ret' = ErrorsIn(response')
        /\ called' \in {"id", "repr"} =>
             /\ fetches' = fetches
             /\ response' = NoFetch
             /\ is_complete' = is_complete
             /\ fatal_error' = fatal_error
             /\ errors' = errors
             /\ called' = "id" => ret' = PyStr(job_id)
             /\ called' = "repr" => ret' = PyStr("Job " \o job_id)]_vars

\* the first call on a handle was iscomplete; it fetched DONE and returned True
C15_Witness ==
  /\ called = "iscomplete"
  /\ fetches = 1
  /\ FetchedDone
  /\ ret = PyTrue

\* C17: when a wait with timeout T > 0 and poll P > 0 returns False, the sleep it
\* asked for in total, sleeps * P, is at least T and less than T + P, and it
\* has fetched once more than it has slept.
C17_TimeoutBounds ==
  (called = "wait" /\ ret = PyFalse /\ timeout0.val > 0 /\ poll.val > 0) =>
        /\ sleeps * poll.val >= timeout0.val
        /\ sleeps * poll.val < timeout0.val + poll.val
        /\ polls = sleeps + 1

\* wait(timeout=1, poll=2) returned False after one sleep of 2 and two fetches
C17_Witness ==
  /\ called = "wait"
  /\ ret = PyFalse
  /\ timeout0 = PyInt(1)
  /\ poll = PyInt(2)
  /\ sleeps = 1
  /\ polls = 2

\* C18 as stated, second half: against a job that never completes, a wait with
\* timeout > 0 and poll <= 0 never ends.
C18_Original ==
  (called = "wait" /\ timeout0 # None /\ timeout0.val > 0 /\ poll.val <= 0) =>
     ret = Pending

\* C18 as amended: against a job that never completes and a provider that never
\* raises, a wait with a timeout T eventually returns False when T <= 0 or
\* poll > 0; with T > 0 and poll <= 0 it never returns False and the budget
\* never falls below T: with poll = 0 the call never ends, with poll < 0 it
\* ends after one fetch with the ValueError of _sleep.
C18_TimeoutTermination ==
  /\ (called = "wait" /\ timeout0 # None /\ pc # "idle"
        /\ (timeout0.val <= 0 \/ poll.val > 0))
       ~> (called = "wait" /\ pc = "idle" /\ ret = PyFalse)
  /\ [](called = "wait" /\ timeout0 # None /\ ret = PyFalse =>
          (timeout0.val <= 0 \/ poll.val > 0))
  /\ [](called = "wait" /\ timeout0 # None /\ timeout0.val > 0 /\ poll.val <= 0 =>
          /\ timeout.val >= timeout0.val
          /\ poll.val = 0 => ret = Pending
          /\ poll.val < 0 =>
               \/ ret = Pending
               \/ (ret = ValueError /\ pc = "idle" /\ polls = 1 /\ sleeps = 0))

\* wait(timeout=1, poll=0) is still polling, budget unchanged, at the cap
C18_Witness ==
  /\ provider = "never_done"
  /\ called = "wait"
  /\ timeout0 = PyInt(1)
  /\ poll = PyInt(0)
  /\ timeout = PyInt(1)
  /\ polls = NeverCap
  /\ sleeps = NeverCap - 1
  /\ ret = Pending

\* C19 as stated: after every refresh, also one that raised while processing the
\* response, the handle is either incomplete with both fields None, or complete
\* by a refresh that ran to its end and stored the full parse of its response.
C19_AllOrNothing ==
  /\ ~is_complete => (fatal_error = None /\ errors = None)
  /\ (is_complete /\ response # NoFetch) =>
        /\ ret \notin Exceptions
        /\ fatal_error = FatalIn(response)
        /\ errors = ErrorsIn(response)

\* C16: with two threads on one handle the completion flag is written before
\* the fields that depend on it: a thread that is past line 105 of the DONE
\* branch has made the handle complete while _fatal_error and _errors may still
\* be unset or partial, the flag is only set after a DONE response, and each
\* anomaly is an observation of a complete handle.  A list handed out by the
\* errors property is the object the loop appends to, so it stays equal to
\* _errors for as long as _errors refers to it.
C16_FlagBeforeFields ==
  /\ \A t \in Threads :
       threads[t].pc \in {"set_fatal", "init_errors", "append"} =>
          /\ is_complete
          /\ IsDone(StatusOf(threads[t].resp))
  /\ (fatal_error # None \/ errors # None) => is_complete
  /\ seen # {} => is_complete
  /\ \A t \in Threads :
       (threads[t].pc = "idle" /\ threads[t].call \in InCalls /\ ~is_complete) =>
          threads[t].ret \in {PyFalse, None}
  /\ \A t \in alias :
       /\ threads[t].pc = "idle"
       /\ errors # None
       /\ threads[t].ret = errors

\* in one run a thread saw failed false while the fatal error was yet to be
\* stored, a thread saw a shorter errors list than the response carries, and a
\* fetch was made with the handle already complete
C16_Witness ==
  /\ seen = {"stale_failed", "short_errors", "late_fetch"}
  /\ \E t \in alias : Len(threads[t].ret.items) > 1

====
